---- MODULE Spec2Model ----
(***************************************************************************)
(* ReqBot (src/app.py): a Streamlit script that classifies requirement     *)
(* texts with an LLM and keeps the results in the session state.           *)
(*                                                                         *)
(* The session state (st.session_state.messages and .requirements) is the  *)
(* state of the model.  One script run is triggered by one widget event:   *)
(* a chat submission, one of the two clear buttons, or a plain rerun.  The *)
(* chat submission blocks on the LLM call, so it is split at that call:    *)
(* SubmitBegin (lines 149-158), LLMRespond (lines 74-90, the call and the  *)
(* parsing of its answer) and HandleResult (lines 163-185).                *)
(*                                                                         *)
(* Python strings that the code inspects character by character (the       *)
(* classification label) are sequences of one-character strings, see       *)
(* Chars.  The 'timestamp' fields (time.time()) are left out: no operation *)
(* reads them.                                                             *)
(***************************************************************************)
EXTENDS Integers, Sequences, FiniteSets, TLC

VARIABLES
    messages,               \* st.session_state.messages
    requirements,           \* st.session_state.requirements
    pc,                     \* "idle" | "awaiting" | "updating"
    user_input,             \* the text of the submission being handled
    classification_result,  \* what classify_requirement returned
    displayed,              \* the turns the display loop emitted in the latest run
    trigger,                \* the widget whose event started the latest script run
    uncaught                \* the latest script run ended in an uncaught exception

vars == << messages, requirements, pc, user_input, classification_result,
           displayed, trigger, uncaught >>

---------------------------------------------------------------------------
\* Bounds of the model

\* longest ConversationLog of the specification Spec
MaxLog == 6

\* longest ConversationLog of the specification SpecLong
MaxLongLog == 12

\* messages[-10:], the number of turns the display loop shows
DisplayLimit == 10

---------------------------------------------------------------------------
\* Python strings as character sequences

UpperCase == << "A", "B", "C", "D", "E", "F", "G", "H", "I", "J", "K", "L", "M",
                "N", "O", "P", "Q", "R", "S", "T", "U", "V", "W", "X", "Y", "Z" >>

LowerCase == << "a", "b", "c", "d", "e", "f", "g", "h", "i", "j", "k", "l", "m",
                "n", "o", "p", "q", "r", "s", "t", "u", "v", "w", "x", "y", "z" >>

\* The characters of the string literals and labels of the model.
Chars(s) ==
    CASE s = "Functional Requirement" ->
           << "F", "u", "n", "c", "t", "i", "o", "n", "a", "l", " ", "R", "e", "q", "u", "i", "r", "e", "m", "e", "n", "t" >>
      [] s = "Non-Functional Requirement" ->
           << "N", "o", "n", "-", "F", "u", "n", "c", "t", "i", "o", "n", "a", "l", " ", "R", "e", "q", "u", "i", "r", "e", "m", "e", "n", "t" >>
      [] s = "Non Functional" ->
           << "N", "o", "n", " ", "F", "u", "n", "c", "t", "i", "o", "n", "a", "l" >>
      [] s = "Domain Requirement" ->
           << "D", "o", "m", "a", "i", "n", " ", "R", "e", "q", "u", "i", "r", "e", "m", "e", "n", "t" >>
      [] s = "Inverse Requirement" ->
           << "I", "n", "v", "e", "r", "s", "e", " ", "R", "e", "q", "u", "i", "r", "e", "m", "e", "n", "t" >>
      [] s = "banana" ->
           << "b", "a", "n", "a", "n", "a" >>
      [] s = "Functional" ->
           << "F", "u", "n", "c", "t", "i", "o", "n", "a", "l" >>
      [] s = "Unknown" ->
           << "U", "n", "k", "n", "o", "w", "n" >>
      [] s = "functional" ->
           << "f", "u", "n", "c", "t", "i", "o", "n", "a", "l" >>
      [] s = "non_functional" ->
           << "n", "o", "n", "_", "f", "u", "n", "c", "t", "i", "o", "n", "a", "l" >>
      [] s = "non-functional" ->
           << "n", "o", "n", "-", "f", "u", "n", "c", "t", "i", "o", "n", "a", "l" >>
      [] s = "domain" ->
           << "d", "o", "m", "a", "i", "n" >>
      [] s = "inverse" ->
           << "i", "n", "v", "e", "r", "s", "e" >>

\* str.lower(), one character
LowerChar(c) ==
    IF \E i \in 1..Len(UpperCase) : UpperCase[i] = c
    THEN LowerCase[CHOOSE i \in 1..Len(UpperCase) : UpperCase[i] = c]
    ELSE c

\* str.lower()
Lower(cs) == [i \in 1..Len(cs) |-> LowerChar(cs[i])]

\* str.replace(' ', '_')
ReplaceSpace(cs) == [i \in 1..Len(cs) |-> IF cs[i] = " " THEN "_" ELSE cs[i]]

\* sub in cs
Contains(sub, cs) ==
    \E i \in 1..(Len(cs) - Len(sub) + 1) : SubSeq(cs, i, i + Len(sub) - 1) = sub

---------------------------------------------------------------------------
\* classify_requirement

Fields == {"classification", "explanation", "suggested_rewrite"}

\* The text of an LLM response is a sequence of tokens: the fence markers, white
\* space, and one body, which is either a JSON object or text that is no JSON.
FenceJson == [tok |-> "fence_json"]
Fence == [tok |-> "fence"]
Newline == [tok |-> "newline"]
NotJson == [tok |-> "chars", s |-> "I cannot classify this."]
JsonObject(obj) == [tok |-> "object", val |-> obj]

\* response_text.replace(<fence json>, '').replace(<fence>, '').strip()
StripFences(text) ==
    LET unfenced == SelectSeq(text, LAMBDA t : t.tok \notin {"fence_json", "fence"})
        solid == {i \in 1..Len(unfenced) : unfenced[i].tok # "newline"}
    IN  IF solid = {}
        THEN << >>
        ELSE SubSeq(unfenced,
                    CHOOSE i \in solid : \A j \in solid : i <= j,
                    CHOOSE i \in solid : \A j \in solid : j <= i)

\* json.loads(response_text): the decoded value, or JSONDecodeError
JsonLoads(text) ==
    IF Len(text) = 1 /\ text[1].tok = "object"
    THEN [ok |-> TRUE, val |-> text[1].val]
    ELSE [ok |-> FALSE, exc |-> "JSONDecodeError"]

\* the dict of the except branch
Fallback(requirement_text) ==
    [classification |-> "Unknown",
     explanation |-> "Failed to classify",
     suggested_rewrite |-> requirement_text]

\* classify_requirement(requirement_text), the LLM collaborator answering resp:
\* it raises, or it returns a response with the text resp.text
ClassifyRequirement(requirement_text, resp) ==
    IF resp.kind = "raise"
    THEN Fallback(requirement_text)
    ELSE LET result == JsonLoads(StripFences(resp.text))
         IN  IF result.ok THEN result.val ELSE Fallback(requirement_text)

---------------------------------------------------------------------------
\* add_requirement

\* classification_result['classification'].lower().replace(' ', '_')
NormalizeLabel(label) == ReplaceSpace(Lower(Chars(label)))

\* ResolveCategory with a default that is no key of the store
ResolveCategory_DefaultUnknown(label) ==
    LET category == NormalizeLabel(label)
    IN  IF Contains(Chars("functional"), category) THEN "functional"
        ELSE IF Contains(Chars("non_functional"), category)
                \/ Contains(Chars("non-functional"), category) THEN "non_functional"
        ELSE IF Contains(Chars("domain"), category) THEN "domain"
        ELSE IF Contains(Chars("inverse"), category) THEN "inverse"
        ELSE "unknown"

\* the if/elif chain that picks category_key
ResolveCategory(label) ==
    LET category == NormalizeLabel(label)
    IN  IF Contains(Chars("functional"), category) THEN "functional"
        ELSE IF Contains(Chars("non_functional"), category)
                \/ Contains(Chars("non-functional"), category) THEN "non_functional"
        ELSE IF Contains(Chars("domain"), category) THEN "domain"
        ELSE IF Contains(Chars("inverse"), category) THEN "inverse"
        ELSE "functional"

\* RequirementEntry with 'original' and 'rewritten' swapped
RequirementEntry_Swapped(original_text, classification_result_) ==
    [original |-> classification_result_.suggested_rewrite,
     rewritten |-> original_text,
     explanation |-> classification_result_.explanation]

\* requirement_entry
RequirementEntry(original_text, classification_result_) ==
    [original |-> original_text,
     rewritten |-> classification_result_.suggested_rewrite,
     explanation |-> classification_result_.explanation]

\* AddRequirement with insert(0, requirement_entry) for append(requirement_entry)
AddRequirement_Insert(reqs, original_text, classification_result_) ==
    IF ~(Fields \subseteq DOMAIN classification_result_)
    THEN [ok |-> FALSE, exc |-> "KeyError"]
    ELSE LET category_key == ResolveCategory(classification_result_.classification)
         IN  IF category_key \notin DOMAIN reqs
             THEN [ok |-> FALSE, exc |-> "KeyError"]
             ELSE [ok |-> TRUE,
                   val |-> [reqs EXCEPT ![category_key] =
                              << RequirementEntry(original_text,
                                                  classification_result_) >> \o @]]

\* add_requirement(original_text, classification_result) on the store reqs: the
\* store afterwards, or the KeyError of a missing dict key
AddRequirement(reqs, original_text, classification_result_) ==
    IF ~(Fields \subseteq DOMAIN classification_result_)
    THEN [ok |-> FALSE, exc |-> "KeyError"]
    ELSE LET category_key == ResolveCategory(classification_result_.classification)
         IN  IF category_key \notin DOMAIN reqs
             THEN [ok |-> FALSE, exc |-> "KeyError"]
             ELSE [ok |-> TRUE,
                   val |-> [reqs EXCEPT ![category_key] =
                              Append(@, RequirementEntry(original_text,
                                                         classification_result_))]]

---------------------------------------------------------------------------
\* The script

\* the no-value of user_input and classification_result outside a submission
NoInput == ""
NoResult == [none |-> TRUE]

\* the dict literal of the session state initialization
InitRequirements ==
    [functional |-> << >>, non_functional |-> << >>, domain |-> << >>, inverse |-> << >>]

\* the dict literal of the sidebar button
ClearAllRequirements ==
    [functional |-> << >>, non_functional |-> << >>, domain |-> << >>, inverse |-> << >>]

\* ClearChatRequirements with the 'inverse' line lost
ClearChatRequirements_NoInverse ==
    [functional |-> << >>, non_functional |-> << >>, domain |-> << >>]

\* the dict literal of the bottom button
ClearChatRequirements ==
    [functional |-> << >>, non_functional |-> << >>, domain |-> << >>, inverse |-> << >>]

UserMessage(text) == [role |-> "user", content |-> text]

\* bot_response, the f-string around the three fields
BotResponse(classification_result_) ==
    << "**Classification:** ", classification_result_.classification,
       "**Explanation:** ", classification_result_.explanation,
       "**Suggested Rewrite:** ", classification_result_.suggested_rewrite >>

AssistantMessage(classification_result_) ==
    [role |-> "assistant",
     content |-> BotResponse(classification_result_),
     category |-> classification_result_.classification]

\* DisplayChat with messages[:10] for messages[-10:]
DisplayChat_FirstTurns(msgs) ==
    IF Len(msgs) <= DisplayLimit THEN msgs ELSE SubSeq(msgs, 1, DisplayLimit)

\* the display loop: st.session_state.messages[-10:]
DisplayChat(msgs) ==
    IF Len(msgs) <= DisplayLimit
    THEN msgs
    ELSE SubSeq(msgs, Len(msgs) - DisplayLimit + 1, Len(msgs))

\* st.rerun(): the script runs again top to bottom with no widget triggered and
\* its display loop emits the log msgs
Rendered(msgs) ==
    /\ displayed' = DisplayChat(msgs)
    /\ uncaught' = FALSE
    /\ pc' = "idle"

Init ==
    /\ messages = << >>
    /\ requirements = InitRequirements
    /\ pc = "idle"
    /\ user_input = NoInput
    /\ classification_result = NoResult
    /\ displayed = << >>
    /\ trigger = "none"
    /\ uncaught = FALSE

\* if user_input: the user turn is appended and the spinner is shown
SubmitBegin(text) ==
    /\ pc = "idle"
    /\ messages' = Append(messages, UserMessage(text))
    /\ user_input' = text
    /\ pc' = "awaiting"
    /\ trigger' = "chat_input"
    /\ uncaught' = FALSE
    /\ UNCHANGED << requirements, classification_result, displayed >>

\* classify_requirement(user_input) returns
LLMRespond(resp) ==
    /\ pc = "awaiting"
    /\ classification_result' = ClassifyRequirement(user_input, resp)
    /\ pc' = "updating"
    /\ UNCHANGED << messages, requirements, user_input, displayed, trigger, uncaught >>

\* add_requirement, the assistant turn, st.rerun(); a KeyError of add_requirement
\* is caught nowhere and ends the script run before the display loop
HandleResult ==
    /\ pc = "updating"
    /\ LET added == AddRequirement(requirements, user_input, classification_result)
       IN  IF added.ok
           THEN /\ requirements' = added.val
                /\ messages' = Append(messages, AssistantMessage(classification_result))
                /\ Rendered(messages')
           ELSE /\ uncaught' = TRUE
                /\ displayed' = << >>
                /\ pc' = "idle"
                /\ UNCHANGED << messages, requirements >>
    /\ user_input' = NoInput
    /\ classification_result' = NoResult
    /\ UNCHANGED trigger

\* the sidebar button "Clear All Requirements"
ClearAll ==
    /\ pc = "idle"
    /\ trigger' = "clear_all"
    /\ requirements' = ClearAllRequirements
    /\ messages' = << >>
    /\ Rendered(<< >>)
    /\ UNCHANGED << user_input, classification_result >>

\* ClearChat without the reset of the requirements
ClearChat_KeepsRequirements ==
    /\ pc = "idle"
    /\ ~uncaught
    /\ messages # << >>
    /\ trigger' = "clear_chat"
    /\ messages' = << >>
    /\ Rendered(<< >>)
    /\ UNCHANGED << requirements, user_input, classification_result >>

\* the bottom button "Clear Chat", rendered only by a run that reaches it with
\* a non-empty log
ClearChat ==
    /\ pc = "idle"
    /\ ~uncaught
    /\ messages # << >>
    /\ trigger' = "clear_chat"
    /\ messages' = << >>
    /\ requirements' = ClearChatRequirements
    /\ Rendered(<< >>)
    /\ UNCHANGED << user_input, classification_result >>

\* a script run with no widget triggered
Rerun ==
    /\ pc = "idle"
    /\ trigger' = "rerun"
    /\ Rendered(messages)
    /\ UNCHANGED << messages, requirements, user_input, classification_result >>

---------------------------------------------------------------------------
\* Inputs

Texts == {"The system shall allow login via email", "The system shall not store passwords"}

Labels == {"Functional Requirement", "Non-Functional Requirement", "Non Functional",
           "Domain Requirement", "Inverse Requirement", "banana", "Functional"}

WellFormed(label) ==
    [classification |-> label, explanation |-> "Describes a feature",
     suggested_rewrite |-> "The system shall allow login via email"]

\* a JSON object lacking the field f
Lacking(f) == [g \in Fields \ {f} |-> WellFormed("Functional")[g]]

Raises == [kind |-> "raise"]
Returns(text) == [kind |-> "text", text |-> text]

FencedJson(obj) == Returns(<< FenceJson, Newline, JsonObject(obj), Newline, Fence >>)
PlainJson(obj) == Returns(<< JsonObject(obj), Newline >>)

\* the failures of a classification
NotJsonResponses == {Returns(<< NotJson >>), Returns(<< FenceJson, Newline, Fence >>)}
LackingResponses == {FencedJson(Lacking(f)) : f \in Fields}
FailureResponses == {Raises} \cup NotJsonResponses \cup LackingResponses

Responses ==
    FailureResponses
    \cup {FencedJson(WellFormed(l)) : l \in Labels}
    \cup {PlainJson(WellFormed("Functional"))}

LongTexts == {"The system shall allow login via email"}

LongResponses ==
    {Raises, FencedJson(Lacking("explanation")), FencedJson(WellFormed("Functional"))}

Next ==
    \/ /\ Len(messages) + 2 <= MaxLog
       /\ \E text \in Texts : SubmitBegin(text)
    \/ \E resp \in Responses : LLMRespond(resp)
    \/ HandleResult
    \/ ClearAll
    \/ ClearChat
    \/ Rerun

Spec == Init /\ [][Next]_vars

NextLong ==
    \/ /\ Len(messages) + 2 <= MaxLongLog
       /\ \E text \in LongTexts : SubmitBegin(text)
    \/ \E resp \in LongResponses : LLMRespond(resp)
    \/ HandleResult
    \/ ClearAll
    \/ ClearChat
    \/ Rerun

SpecLong == Init /\ [][NextLong]_vars

---------------------------------------------------------------------------
\* Properties

\* the four keys of the RequirementStore
CategoryKeys == {"functional", "non_functional", "domain", "inverse"}

\* the number of records of the store reqs
Total(reqs) ==
    Len(reqs["functional"]) + Len(reqs["non_functional"])
    + Len(reqs["domain"]) + Len(reqs["inverse"])

StoreEmpty(reqs) == \A k \in CategoryKeys : reqs[k] = << >>

IsPrefix(a, b) == Len(a) <= Len(b) /\ SubSeq(b, 1, Len(a)) = a

LastOf(seq) == seq[Len(seq)]

\* the step is HandleResult on a result that carries the three fields
UpdatingWellFormed == pc = "updating" /\ Fields \subseteq DOMAIN classification_result

\* the latest script run handled a submission to its end
Submitted == pc = "idle" /\ trigger = "chat_input" /\ ~uncaught

\* C1: every classification failure (the LLM call raises, the response is no JSON
\* after fence stripping, the JSON lacks one of the three fields) makes
\* classify_requirement return the fallback {Unknown, Failed to classify, text}.
C1_FailureYieldsFallback ==
    [][\A resp \in FailureResponses :
          LLMRespond(resp) => classification_result' = Fallback(user_input)]_vars

\* the key the category resolution is said to yield for a label
ClaimedKey(label) ==
    IF \/ Contains(Chars("non_functional"), NormalizeLabel(label))
       \/ Contains(Chars("non-functional"), NormalizeLabel(label))
    THEN "non_functional"
    ELSE CASE label = "Functional Requirement" -> "functional"
           [] label = "Domain Requirement" -> "domain"
           [] label = "Inverse Requirement" -> "inverse"
           [] label = "banana" -> "functional"

ClaimedLabels ==
    {"Functional Requirement", "Non-Functional Requirement", "Non Functional",
     "Domain Requirement", "Inverse Requirement", "banana"}

\* C2: add_requirement files a record under functional for the label "Functional
\* Requirement", under non_functional for "Non-Functional Requirement", under
\* domain for "Domain Requirement", under inverse for "Inverse Requirement",
\* under functional for "banana", and under non_functional for every label whose
\* normalized form contains non_functional or non-functional.
C2_EveryKeyResolved ==
    [][(UpdatingWellFormed /\ classification_result.classification \in ClaimedLabels)
         => LET key == ClaimedKey(classification_result.classification)
            IN  Len(requirements'[key]) = Len(requirements[key]) + 1]_vars

\* C3: whatever the LLM collaborator does, the turn is not aborted: the handler
\* returns to idle having appended one record to the store and the assistant turn
\* to the log.
C3_TurnNeverAborted ==
    [][pc = "updating"
         => /\ pc' = "idle"
            /\ ~uncaught'
            /\ Total(requirements') = Total(requirements) + 1
            /\ Len(messages') = Len(messages) + 1
            /\ LastOf(messages').role = "assistant"]_vars

\* C4: a step of either clear button leaves the four sequences and the log empty,
\* with nothing displayed, and no step at all empties one of the store and the log
\* and leaves the other non-empty.
C4_ClearIsWhole ==
    [][/\ trigger' \in {"clear_all", "clear_chat"}
            => messages' = << >> /\ StoreEmpty(requirements') /\ displayed' = << >>
       /\ (messages # << >> /\ messages' = << >>) => StoreEmpty(requirements')
       /\ (~StoreEmpty(requirements) /\ StoreEmpty(requirements'))
            => messages' = << >>]_vars

C4_Witness ==
    /\ trigger = "clear_chat"
    /\ pc = "idle"
    /\ messages = << >>
    /\ StoreEmpty(requirements)

\* C5: a submission whose result carries the three fields appends the user turn
\* and then the assistant turn to the log and one record, whose original text is
\* the submitted text, to the sequence of the resolved category, and to no other;
\* the label "Functional" adds it to functional.
C5_SubmissionRecorded ==
    [][/\ (pc = "idle" /\ pc' = "awaiting")
            => messages' = Append(messages, [role |-> "user", content |-> user_input'])
       /\ UpdatingWellFormed
            => LET label == classification_result.classification
                   key == ResolveCategory(label)
                   n == Len(requirements[key])
               IN  /\ LastOf(messages) = [role |-> "user", content |-> user_input]
                   /\ Len(messages') = Len(messages) + 1
                   /\ SubSeq(messages', 1, Len(messages)) = messages
                   /\ LastOf(messages').role = "assistant"
                   /\ LastOf(messages').category = label
                   /\ Len(requirements'[key]) = n + 1
                   /\ SubSeq(requirements'[key], 1, n) = requirements[key]
                   /\ requirements'[key][n + 1].original = user_input
                   /\ \A k \in CategoryKeys \ {key} : requirements'[k] = requirements[k]
                   /\ label = "Functional"
                        => Len(requirements'["functional"])
                             = Len(requirements["functional"]) + 1]_vars

C5_Witness ==
    /\ Submitted
    /\ LastOf(messages).category = "Functional"
    /\ messages[Len(messages) - 1] =
         [role |-> "user", content |-> "The system shall not store passwords"]
    /\ LastOf(requirements["functional"]).original = "The system shall not store passwords"
    /\ Total(requirements) = 1

\* C6: in every reachable state the RequirementStore has exactly the four keys
\* functional, non_functional, domain and inverse.
C6_FourKeys == DOMAIN requirements = CategoryKeys

C6_Witness ==
    /\ trigger = "chat_input"
    /\ pc = "idle"
    /\ DOMAIN requirements = CategoryKeys
    /\ requirements["inverse"] # << >>
    /\ requirements["domain"] # << >>
    /\ requirements["functional"] = << >>

\* C7: the display loop shows the last min(n, 10) turns of the log of length n in
\* their order, and a rerun leaves the log, which may be longer than 10, as it is.
C7_DisplayLastTurns ==
    [][/\ (pc' = "idle" /\ ~uncaught')
            => /\ Len(displayed') = IF Len(messages') < 10 THEN Len(messages') ELSE 10
               /\ \A i \in 1..Len(displayed') :
                     displayed'[i] = messages'[Len(messages') - Len(displayed') + i]
       /\ trigger' = "rerun" => messages' = messages]_vars

C7_Witness ==
    /\ pc = "idle"
    /\ trigger = "rerun"
    /\ Len(messages) = 12
    /\ Len(displayed) = 10
    /\ displayed[1] = messages[3]
    /\ displayed[1] # messages[1]

\* no marker of the if/elif chain occurs in the normalized label
NoMarker(label) ==
    \A m \in {"functional", "non_functional", "non-functional", "domain", "inverse"} :
       ~Contains(Chars(m), NormalizeLabel(label))

\* C8: for every label a classification result carries, the category resolution
\* does not fail and files the record under exactly one of the four keys, which is
\* functional when the label matches no marker (the fallback label Unknown too).
C8_ResolutionTotal ==
    [][UpdatingWellFormed
         => /\ ~uncaught'
            /\ \E k \in CategoryKeys :
                  /\ Len(requirements'[k]) = Len(requirements[k]) + 1
                  /\ \A j \in CategoryKeys \ {k} : requirements'[j] = requirements[j]
            /\ NoMarker(classification_result.classification)
                 => Len(requirements'["functional"])
                      = Len(requirements["functional"]) + 1]_vars

C8_Witness ==
    /\ Submitted
    /\ LastOf(messages).category = "Unknown"
    /\ Len(requirements["functional"]) = 1
    /\ Total(requirements) = 1

\* C9: a step that is no clear action keeps every turn of the log and every
\* record of the store in its place, and adds at most one record, at the end of
\* the sequence of the resolved category.
C9_AppendOnly ==
    [][trigger' \notin {"clear_all", "clear_chat"}
         => /\ IsPrefix(messages, messages')
            /\ \A k \in CategoryKeys : IsPrefix(requirements[k], requirements'[k])
            /\ Total(requirements') <= Total(requirements) + 1
            /\ requirements' # requirements
                 => /\ pc = "updating"
                    /\ Fields \subseteq DOMAIN classification_result
                    /\ LET key == ResolveCategory(classification_result.classification)
                       IN  Len(requirements'[key]) = Len(requirements[key]) + 1]_vars

C9_Witness ==
    /\ Submitted
    /\ Len(requirements["functional"]) = 2
    /\ requirements["functional"][1].original # requirements["functional"][2].original
    /\ Len(requirements["domain"]) = 1
    /\ LastOf(messages).category = "Functional Requirement"

\* C10: whenever the loop is idle the log is twice as long as the store has
\* records, and its turns alternate user, assistant, starting with user.
C10_LogMatchesStore ==
    pc = "idle"
      => /\ Len(messages) = 2 * Total(requirements)
         /\ \A i \in 1..Len(messages) :
               messages[i].role = IF i % 2 = 1 THEN "user" ELSE "assistant"

====
